---- MODULE Spec2Model ----
(***************************************************************************)
(* A model of filecat (src/src/main.rs): the exclusion matcher, the        *)
(* content classifier, the renderers and the traversal driven by main.     *)
(*                                                                         *)
(* Strings are sequences of one-character strings; byte buffers are        *)
(* sequences of numbers 0..255; rendered output is a sequence of Unicode   *)
(* code points.                                                            *)
(***************************************************************************)
EXTENDS Integers, Sequences, FiniteSets, TLC

VARIABLES
    \* ---- the run of main over a file system (Spec) ----
    pc,          \* "start", "walk" (main's for loop), "dir" (inside process_dir), "done", "failed"
    cfg,         \* the parsed Args: paths, recursive, exclude, header, verbose, hex, counter, skip_non_text, output
    outPath,     \* the -o path: what lay there when the run began ("absent", "file", "dir"), and
                 \* whether File::create has since created or truncated it ("original", "created")
    sinkCreated, \* whether main reached the creation of the output sink
    expanded,    \* expanded_paths
    idx,         \* position of main's for loop in expanded_paths
    stack,       \* the process_dir activations: each the children still to iterate
    output,      \* what reached the sink: per file, its bytes there and whether that is all of them
    buffer,      \* the bytes held in the line buffer of io::stdout(), not yet in the sink
    sinkFull,    \* whether a write to the sink has failed
    log,         \* what was written to stderr
    file_count,  \* FileCat.file_count
    visited,     \* every (top-level index, path) that process_file or process_dir was called on
    err,         \* the call whose io::Error main returned ("create", "read_dir", "entry", "open", "write"), or "none"
    \* ---- should_exclude / normalize_path applied to one input (SpecExclude) ----
    ex_pc, ex_rules, ex_path, ex_alt, ex_norm, ex_res, ex_res_alt,
    \* ---- is_text_file / print_content / print_hex applied to one buffer (SpecRender) ----
    rn_pc, rn_buf, rn_verbose, rn_text, rn_out, rn_hex

runVars == <<pc, cfg, outPath, sinkCreated, expanded, idx, stack, output, buffer, sinkFull, log,
             file_count, visited, err>>
exVars == <<ex_pc, ex_rules, ex_path, ex_alt, ex_norm, ex_res, ex_res_alt>>
rnVars == <<rn_pc, rn_buf, rn_verbose, rn_text, rn_out, rn_hex>>
vars == <<runVars, exVars, rnVars>>

\* ------------------------------------------------------------------ bounds
\* longest path string given to should_exclude
MaxPathLen == 4
\* longest exclusion pattern string
MaxPatLen == 2
\* longest byte buffer given to the classifier and the renderers
MaxBufLen == 3
\* most positional arguments of a run
MaxArgs == 2

SeqsUpTo(S, n) == UNION {[1..k -> S] : k \in 0..n}

RECURSIVE Concat(_)
Concat(ss) == IF ss = <<>> THEN <<>> ELSE Head(ss) \o Concat(Tail(ss))

\* --------------------------------------------------- str::replace, str::contains
\* every non-overlapping occurrence of `from` (not empty), left to right
RECURSIVE StrReplace(_, _, _)
StrReplace(s, from, to) ==
    IF s = <<>> THEN <<>>
    ELSE IF Len(s) >= Len(from) /\ SubSeq(s, 1, Len(from)) = from
         THEN to \o StrReplace(SubSeq(s, Len(from) + 1, Len(s)), from, to)
         ELSE <<s[1]>> \o StrReplace(Tail(s), from, to)

StrContains(s, pat) ==
    \E i \in 1..(Len(s) - Len(pat) + 1) : SubSeq(s, i, i + Len(pat) - 1) = pat

\* --------------------------------------------------- normalize_path
\* path.replace('\\', "/")
ReplaceBackslash(s) == StrReplace(s, <<"\\">>, <<"/">>)

\* .replace("./", "")
RemoveDotSlash(s) == StrReplace(s, <<".", "/">>, <<>>)

NormalizePath(path) == RemoveDotSlash(ReplaceBackslash(path))

\* --------------------------------------------------- glob::Pattern
\* path::is_separator on the platforms where '/' is the only separator
IsSeparator(c) == c = "/"

\* Pattern::new for patterns without '[': the token list, or ok = FALSE.
\* i is the 1-based position of the next character.
RECURSIVE CompileFrom(_, _, _)
CompileFrom(chars, i, tokens) ==
    IF i > Len(chars) THEN [ok |-> TRUE, tokens |-> tokens]
    ELSE IF chars[i] = "?" THEN CompileFrom(chars, i + 1, Append(tokens, [t |-> "AnyChar"]))
    ELSE IF chars[i] = "*" THEN
        LET stars == {j \in i..Len(chars) : \A k \in i..j : chars[k] = "*"}
            count == Cardinality(stars)
            j == i + count      \* first position after the run of stars
        IN  IF count > 2 THEN [ok |-> FALSE, tokens |-> <<>>]
            ELSE IF count = 2 THEN
                IF i = 1 \/ IsSeparator(chars[i - 1])
                THEN IF j <= Len(chars) /\ ~IsSeparator(chars[j])
                     THEN [ok |-> FALSE, tokens |-> <<>>]
                     ELSE LET next == IF j <= Len(chars) THEN j + 1 ELSE j
                              n == Len(tokens)
                              toks == IF n > 1 /\ tokens[n].t = "AnyRecursiveSequence"
                                      THEN tokens
                                      ELSE Append(tokens, [t |-> "AnyRecursiveSequence"])
                          IN  CompileFrom(chars, next, toks)
                ELSE [ok |-> FALSE, tokens |-> <<>>]
            ELSE CompileFrom(chars, j, Append(tokens, [t |-> "AnySequence"]))
    ELSE CompileFrom(chars, i + 1, Append(tokens, [t |-> "Char", c |-> chars[i]]))

PatternNew(p) == CompileFrom(p, 1, <<>>)

\* Pattern::matches with MatchOptions::new(): case sensitive, '*' and '?' also
\* match separators, a leading dot needs no literal.
RECURSIVE MatchesFrom(_, _)
MatchesFrom(tokens, file) ==
    IF tokens = <<>> THEN file = <<>>
    ELSE LET tok == Head(tokens)
             rest == Tail(tokens)
         IN  CASE tok.t = "Char" ->
                    file # <<>> /\ file[1] = tok.c /\ MatchesFrom(rest, Tail(file))
               [] tok.t = "AnyChar" ->
                    file # <<>> /\ MatchesFrom(rest, Tail(file))
               [] tok.t = "AnySequence" ->
                    \E k \in 0..Len(file) : MatchesFrom(rest, SubSeq(file, k + 1, Len(file)))
               [] tok.t = "AnyRecursiveSequence" ->
                    \E k \in 0..Len(file) :
                        /\ k = 0 \/ k = Len(file) \/ IsSeparator(file[k])
                        /\ MatchesFrom(rest, SubSeq(file, k + 1, Len(file)))

\* Pattern::new(&normalized_pattern).map(|p| p.matches(&path_str)).unwrap_or(false)
GlobMatches(pattern, path_str) ==
    LET p == PatternNew(pattern)
    IN  p.ok /\ MatchesFrom(p.tokens, path_str)

\* --------------------------------------------------- should_exclude
ExactHit(rules, path_str) ==
    \E r \in 1..Len(rules) :
        LET pattern_str == NormalizePath(rules[r])
        IN  path_str = pattern_str \/ path_str = <<".", "/">> \o pattern_str

GlobHit(rules, path_str) ==
    \E r \in 1..Len(rules) : GlobMatches(NormalizePath(rules[r]), path_str)

ShouldExclude(rules, path) ==
    LET path_str == NormalizePath(path)
    IN  ExactHit(rules, path_str) \/ GlobHit(rules, path_str)

\* --------------------------------------------------- is_text_file
IsAsciiGraphic(b) == b \in 33..126

\* u8::is_ascii_whitespace: space, tab, line feed, form feed, carriage return
IsAsciiWhitespace(b) == b \in {32, 9, 10, 12, 13}

IsTextByte(b) == IsAsciiGraphic(b) \/ IsAsciiWhitespace(b) \/ b = 13

IsTextFile(content) == \A i \in 1..Len(content) : IsTextByte(content[i])

\* --------------------------------------------------- print_hex
HexDigit(n) == IF n < 10 THEN 48 + n ELSE 87 + n

\* {:08x}
Hex8(n) == [k \in 1..8 |-> HexDigit((n \div (16 ^ (8 - k))) % 16)]

\* {:02x} of a byte
Hex2(b) == <<HexDigit(b \div 16), HexDigit(b % 16)>>

\* {:x}
RECURSIVE HexMin(_)
HexMin(n) == IF n < 16 THEN <<HexDigit(n)>> ELSE Append(HexMin(n \div 16), HexDigit(n % 16))

\* what the loop body writes for the byte at 0-based position i
HexCell(i, b) ==
    (IF i % 16 = 0
     THEN (IF i # 0 THEN <<10>> ELSE <<>>) \o Hex8(i) \o <<32, 32>>
     ELSE <<>>) \o Hex2(b) \o <<32>>

PrintHex(content) ==
    Concat([i \in 1..Len(content) |-> HexCell(i - 1, content[i])]) \o <<10>>

\* --------------------------------------------------- print_content
\* String::from_utf8_lossy for buffers whose bytes above 127 can start no
\* UTF-8 sequence (the model's buffers hold 255 only): each becomes U+FFFD.
Utf8Lossy(content) == [i \in 1..Len(content) |-> IF content[i] < 128 THEN content[i] ELSE 65533]

\* core's printable test on U+0000..U+00FF
IsPrintableLatin1(b) == b \in 32..126 \/ (b \in 161..255 /\ b # 173)

\* {:?} of (byte as char), followed by the space of "{:?} "
DebugChar(b) ==
    <<39>> \o
    (CASE b = 0 -> <<92, 48>>
       [] b = 9 -> <<92, 116>>
       [] b = 10 -> <<92, 110>>
       [] b = 13 -> <<92, 114>>
       [] b = 39 -> <<92, 39>>
       [] b = 92 -> <<92, 92>>
       [] OTHER -> IF IsPrintableLatin1(b) THEN <<b>>
                   ELSE <<92, 117, 123>> \o HexMin(b) \o <<125>>)
    \o <<39, 32>>

\* the test of the filtered branch: passed through literally or escaped
IsLiteralByte(b) == IsAsciiGraphic(b) \/ b = 10 \/ b = 9 \/ b = 32 \/ b = 13

FilteredByte(b) == IF IsLiteralByte(b) THEN <<b>> ELSE DebugChar(b)

PrintContent(verbose, content) ==
    IF verbose THEN Utf8Lossy(content)
    ELSE Concat([i \in 1..Len(content) |-> FilteredByte(content[i])]) \o <<10>>

\* "Non-text file" and the newline of writeln!
NonTextMarker == <<78, 111, 110, 45, 116, 101, 120, 116, 32, 102, 105, 108, 101, 10>>

\* a slip in the order of the two tests: --hex looked at before --skip-non-text
RenderFile_HexFirst(content, verbose, hex, skip_non_text) ==
    IF ~IsTextFile(content) /\ hex
    THEN [body |-> PrintHex(content), counted |-> FALSE]
    ELSE IF ~IsTextFile(content) /\ skip_non_text
    THEN [body |-> NonTextMarker, counted |-> FALSE]
    ELSE [body |-> PrintContent(verbose, content), counted |-> TRUE]

\* The tail of process_file after the header: what is written, and whether the
\* function reaches its counter block (the two early returns do not).
RenderFile(content, verbose, hex, skip_non_text) ==
    IF ~IsTextFile(content) /\ skip_non_text
    THEN [body |-> NonTextMarker, counted |-> FALSE]
    ELSE IF ~IsTextFile(content) /\ hex
    THEN [body |-> PrintHex(content), counted |-> FALSE]
    ELSE [body |-> PrintContent(verbose, content), counted |-> TRUE]

\* ===================================================================
\* SpecExclude: normalize_path and should_exclude applied to one path,
\* and should_exclude applied to a second spelling of the same path.
\* ===================================================================
PathChars == {"a", ".", "/", "\\"}
PatChars == {"a", ".", "/", "*"}
ByteVals == {0, 9, 10, 12, 13, 32, 65, 255}

\* the non-empty exclusion patterns clap's value_parser (parse_glob_pattern) lets through
ValidPatterns == {p \in SeqsUpTo(PatChars, MaxPatLen) : p # <<>> /\ PatternNew(p).ok}

RuleSets == {<<>>} \cup {<<p>> : p \in ValidPatterns}

\* the spellings of p that differ from it only in '\' for '/' or by a leading "./"
Spellings(p) ==
    {q \in [1..Len(p) -> PathChars] :
        \A i \in 1..Len(p) : q[i] = p[i] \/ ({q[i], p[i]} = {"/", "\\"})}
    \cup {<<".", "/">> \o p}

RunOff ==
    /\ pc = "off" /\ cfg = <<>> /\ outPath = <<>> /\ sinkCreated = FALSE
    /\ expanded = <<>> /\ idx = 0 /\ stack = <<>> /\ output = <<>> /\ log = <<>>
    /\ file_count = 0 /\ visited = {} /\ err = "none"
    /\ buffer = <<>> /\ sinkFull = FALSE

ExOff ==
    /\ ex_pc = "off" /\ ex_rules = <<>> /\ ex_path = <<>> /\ ex_alt = <<>>
    /\ ex_norm = <<>> /\ ex_res = FALSE /\ ex_res_alt = FALSE

RnOff ==
    /\ rn_pc = "off" /\ rn_buf = <<>> /\ rn_verbose = FALSE /\ rn_text = FALSE
    /\ rn_out = <<>> /\ rn_hex = <<>>

InitExclude ==
    /\ RunOff /\ RnOff
    /\ ex_pc = "input"
    /\ ex_rules \in RuleSets
    /\ ex_path \in SeqsUpTo(PathChars, MaxPathLen)
    /\ ex_alt \in Spellings(ex_path)
    /\ ex_norm = <<>> /\ ex_res = FALSE /\ ex_res_alt = FALSE

ExNormalize ==
    /\ ex_pc = "input"
    /\ ex_norm' = NormalizePath(ex_path)
    /\ ex_pc' = "normalized"
    /\ UNCHANGED <<ex_rules, ex_path, ex_alt, ex_res, ex_res_alt, runVars, rnVars>>

ExShouldExclude ==
    /\ ex_pc = "normalized"
    /\ ex_res' = ShouldExclude(ex_rules, ex_path)
    /\ ex_res_alt' = ShouldExclude(ex_rules, ex_alt)
    /\ ex_pc' = "done"
    /\ UNCHANGED <<ex_rules, ex_path, ex_alt, ex_norm, runVars, rnVars>>

NextExclude == ExNormalize \/ ExShouldExclude

SpecExclude == InitExclude /\ [][NextExclude]_vars

\* ===================================================================
\* SpecRender: the classifier and the two renderers applied to one buffer.
\* ===================================================================
InitRender ==
    /\ RunOff /\ ExOff
    /\ rn_pc = "input"
    /\ rn_buf \in SeqsUpTo(ByteVals, MaxBufLen)
    /\ rn_verbose \in BOOLEAN
    /\ rn_text = FALSE /\ rn_out = <<>> /\ rn_hex = <<>>

RnClassify ==
    /\ rn_pc = "input"
    /\ rn_text' = IsTextFile(rn_buf)
    /\ rn_pc' = "classified"
    /\ UNCHANGED <<rn_buf, rn_verbose, rn_out, rn_hex, runVars, exVars>>

RnPrintContent ==
    /\ rn_pc = "classified"
    /\ rn_out' = PrintContent(rn_verbose, rn_buf)
    /\ rn_pc' = "printed"
    /\ UNCHANGED <<rn_buf, rn_verbose, rn_text, rn_hex, runVars, exVars>>

RnPrintHex ==
    /\ rn_pc = "printed"
    /\ rn_hex' = PrintHex(rn_buf)
    /\ rn_pc' = "done"
    /\ UNCHANGED <<rn_buf, rn_verbose, rn_text, rn_out, runVars, exVars>>

NextRender == RnClassify \/ RnPrintContent \/ RnPrintHex

SpecRender == InitRender /\ [][NextRender]_vars

\* ===================================================================
\* Spec: one run of main over a small file system.
\*
\*   f          a text file              o    a FIFO (neither a regular
\*   d/         a directory                   file nor a directory)
\*   d/a        a binary file
\*   d/s/       a directory
\*   d/s/b      a binary file
\*   d/z        a text file
\*
\* --color is off: the header line is written unstyled.
\* ===================================================================
F == <<"f">>
O == <<"o">>
D == <<"d">>
DA == <<"d", "/", "a">>
DS == <<"d", "/", "s">>
DZ == <<"d", "/", "z">>
DSB == <<"d", "/", "s", "/", "b">>
NoMatch == <<"n">>
DStar == <<"d", "/", "*">>

Nodes == {F, O, D, DA, DS, DZ, DSB}

\* Path::is_file / Path::is_dir
Kind(p) ==
    CASE p \in {F, DA, DZ, DSB} -> "file"
      [] p \in {D, DS} -> "dir"
      [] OTHER -> "other"

\* fs::read_dir(dir), in listing order, each entry.path()
Children(p) ==
    CASE p = D -> <<DA, DS, DZ>>
      [] p = DS -> <<DSB>>
      [] OTHER -> <<>>

\* what read_to_end reads
Content(p) ==
    CASE p = F -> <<104, 105, 10>>
      [] p = DA -> <<0, 255>>
      [] p = DZ -> <<65>>
      [] p = DSB -> <<7>>
      [] OTHER -> <<>>

\* glob(&normalized_pattern) on this file system, every entry read without error
GlobExpand(pattern) ==
    CASE pattern \in {F, O, D} -> <<pattern>>
      [] pattern = DStar -> <<DA, DS, DZ>>
      [] OTHER -> <<>>

ExpandGlobPatterns(patterns) ==
    Concat([i \in 1..Len(patterns) |-> GlobExpand(ReplaceBackslash(patterns[i]))])

ArgSet == {F, O, D, NoMatch, DStar}

\* "==> {file}", the default of --header, and a template without the placeholder
HeaderDefault == <<"=", "=", ">", " ", "{", "f", "i", "l", "e", "}">>
HeaderPlain == <<"#">>

\* the values of --header in the runs
Headers == {HeaderDefault, HeaderPlain}

Placeholder == <<"{", "f", "i", "l", "e", "}">>

\* self.header.replace("{file}", &display_path)
HeaderLine(header, file) == StrReplace(header, Placeholder, NormalizePath(file))

\* the code point of a character of the model's paths and header templates
CharCode(c) ==
    CASE c = " " -> 32 [] c = "#" -> 35 [] c = "*" -> 42 [] c = "." -> 46 [] c = "/" -> 47
      [] c = "=" -> 61 [] c = ">" -> 62 [] c = "\\" -> 92 [] c = "a" -> 97 [] c = "b" -> 98
      [] c = "d" -> 100 [] c = "e" -> 101 [] c = "f" -> 102 [] c = "i" -> 105 [] c = "l" -> 108
      [] c = "n" -> 110 [] c = "o" -> 111 [] c = "s" -> 115 [] c = "z" -> 122
      [] c = "{" -> 123 [] c = "}" -> 125

\* the bytes a str or char of these code points (all below U+10000) is written as
Utf8Char(cp) ==
    IF cp < 128 THEN <<cp>>
    ELSE IF cp < 2048 THEN <<192 + (cp \div 64), 128 + (cp % 64)>>
    ELSE <<224 + (cp \div 4096), 128 + ((cp \div 64) % 64), 128 + (cp % 64)>>

Utf8Encode(cps) == Concat([i \in 1..Len(cps) |-> Utf8Char(cps[i])])

\* writeln!(output, "{}", header)
HeaderBytes(header, file) ==
    LET line == HeaderLine(header, file)
    IN  Utf8Encode([i \in 1..Len(line) |-> CharCode(line[i])]) \o <<10>>

ExcludeSets == {<<>>, <<DS>>, <<D>>, << <<"*", "a">> >>}

Msg(level, msg, path, n) == [level |-> level, msg |-> msg, path |-> path, n |-> n]

\* a slip: only the is_dir() test
OutputRejected_DirOnly(kind) == kind = "dir"

\* main's test of the -o path: is_dir(), then exists()
OutputRejected(kind) == kind = "dir" \/ kind # "absent"

\* the error main prints when it rejects the -o path
OutputError(kind) ==
    IF kind = "dir" THEN Msg("error", "Output path is a directory", <<>>, 0)
    ELSE Msg("error", "Output file already exists", <<>>, 0)

\* a slip: the exclusion test made only once the child is known to be a file
DirEntrySkipped_FilesOnly(rules, child) == Kind(child) = "file" /\ ShouldExclude(rules, child)

\* process_dir's test at the top of its loop body
DirEntrySkipped(rules, child) == ShouldExclude(rules, child)

\* a slip: the recursion flag left out of the test
Descend_IgnoresFlag(recursive, child) == Kind(child) = "dir"

\* process_dir's test for recursing into a child that is not a file
Descend(recursive, child) == recursive /\ Kind(child) = "dir"

Init ==
    /\ ExOff /\ RnOff
    /\ pc = "start"
    /\ cfg \in [paths : SeqsUpTo(ArgSet, MaxArgs),
                recursive : BOOLEAN,
                exclude : ExcludeSets,
                header : Headers,
                verbose : BOOLEAN,
                hex : BOOLEAN,
                counter : BOOLEAN,
                skip_non_text : BOOLEAN,
                output : {"none", "some"}]
    /\ outPath \in [kind : {"absent", "file", "dir"}, state : {"original"}]
    /\ cfg.output = "none" => outPath.kind = "absent"
    /\ sinkCreated = FALSE
    /\ expanded = <<>> /\ idx = 0 /\ stack = <<>> /\ output = <<>> /\ log = <<>>
    /\ file_count = 0 /\ visited = {} /\ err = "none"
    /\ buffer = <<>> /\ sinkFull = FALSE

\* what the Rust runtime prints when main returns Err(e): "Error: {e:?}"
ErrorLine == Msg("Error", "Debug of the io::Error", <<>>, 0)

\* main, from Args::parse() to the creation of the sink.
\* createOk: whether fs::File::create succeeds, when it is reached.
Start ==
    /\ pc = "start"
    /\ LET exp == ExpandGlobPatterns(cfg.paths)
           warned == IF StrContains(cfg.header, Placeholder) THEN log
                     ELSE Append(log, Msg("warning", "Header does not contain the placeholder {file}", <<>>, 0))
       IN  /\ expanded' = exp
           /\ IF exp = <<>>
              THEN /\ log' = Append(log, Msg("error", "No matching files found", <<>>, 0))
                   /\ pc' = "done"
                   /\ UNCHANGED <<outPath, sinkCreated, idx, err>>
              ELSE IF cfg.output = "some" /\ OutputRejected(outPath.kind)
              THEN /\ log' = Append(log, OutputError(outPath.kind))
                   /\ pc' = "done"
                   /\ UNCHANGED <<outPath, sinkCreated, idx, err>>
              ELSE IF cfg.paths = <<>>
              THEN /\ log' = Append(warned, Msg("error", "No files or directories provided", <<>>, 0))
                   /\ pc' = "done"
                   /\ UNCHANGED <<outPath, sinkCreated, idx, err>>
              ELSE \E createOk \in BOOLEAN :
                   /\ cfg.output = "none" => createOk
                   /\ outPath.kind = "dir" => ~createOk
                   /\ IF createOk
                      THEN /\ sinkCreated' = TRUE
                           /\ outPath' = IF cfg.output = "some"
                                         THEN [outPath EXCEPT !.state = "created"]
                                         ELSE outPath
                           /\ pc' = "walk"
                           /\ idx' = 1
                           /\ log' = warned
                           /\ UNCHANGED err
                      ELSE /\ pc' = "failed"
                           /\ err' = "create"
                           /\ log' = Append(warned, ErrorLine)
                           /\ UNCHANGED <<outPath, sinkCreated, idx>>
    /\ UNCHANGED <<cfg, stack, output, buffer, sinkFull, file_count, visited, exVars, rnVars>>

\* everything process_file writes to the sink for a file when no write fails,
\* tabulated over the files and the flags of the runs
FileBytesTable ==
    [file \in {p \in Nodes : Kind(p) = "file"} |-> [header \in Headers |->
        [verbose \in BOOLEAN |-> [hex \in BOOLEAN |-> [skip_non_text \in BOOLEAN |->
            HeaderBytes(header, file)
                \o Utf8Encode(RenderFile(Content(file), verbose, hex, skip_non_text).body)]]]]]

FileBytes(file) == FileBytesTable[file][cfg.header][cfg.verbose][cfg.hex][cfg.skip_non_text]

\* io::stdout() is line buffered: a write that holds a newline goes to the sink
\* up to its last newline, together with what was held; the bytes after it are
\* held until the next such write or the exit of the process.
AfterLastNewline(bytes) ==
    LET at == {i \in 1..Len(bytes) : bytes[i] = 10}
        last == IF at = {} THEN 0 ELSE CHOOSE i \in at : \A j \in at : j <= i
    IN  SubSeq(bytes, last + 1, Len(bytes))

\* what process_file leaves in the buffer of the sink when it returns Ok:
\* nothing in the -o file, which is written through
Held(file) == IF cfg.output = "none" THEN AfterLastNewline(FileBytes(file)) ELSE <<>>

\* the bytes process_file(file) hands to the sink: what was held, then its own
\* bytes but for those it leaves held
ToSink(file) ==
    buffer \o SubSeq(FileBytes(file), 1, Len(FileBytes(file)) - Len(Held(file)))

\* the held bytes `bytes`, of the last file written, reach the sink
Flushed(out, bytes, complete) ==
    IF bytes = <<>> THEN out
    ELSE [out EXCEPT ![Len(out)].bytes = @ \o bytes, ![Len(out)].whole = complete]

\* How a call of process_file can end, with the number k of the bytes of
\* ToSink(file) that reached the sink: File::open or read_to_end fails
\* ("open"); a write to the sink fails when only k of them have reached it
\* ("write"); or it returns Ok ("ok").
FileOutcomes(file) ==
    LET n == Len(ToSink(file))
    IN  {[kind |-> "ok", k |-> n], [kind |-> "open", k |-> 0]}
            \cup {[kind |-> "write", k |-> j] : j \in 0..(n - 1)}

\* process_file(file) called under top-level entry `root`, ending as `res`.
\* On failure the error propagates to main, which returns it. A sink that has
\* refused a byte takes no more: what is still held then is lost.
ProcessFile(root, file, res) ==
    /\ visited' = visited \cup {<<root, file>>}
    /\ LET all == FileBytes(file)
           fromBuffer == IF res.k < Len(buffer) THEN res.k ELSE Len(buffer)
           fromFile == res.k - fromBuffer
           before == IF res.kind = "open" THEN output
                     ELSE Flushed(output, SubSeq(buffer, 1, fromBuffer), fromBuffer = Len(buffer))
       IN  /\ output' = IF fromFile = 0 THEN before
                        ELSE Append(before, [root |-> root, file |-> file,
                                             bytes |-> SubSeq(all, 1, fromFile),
                                             whole |-> fromFile = Len(all)])
           /\ buffer' = CASE res.kind = "ok" -> Held(file)
                          [] res.kind = "open" -> buffer
                          [] res.kind = "write" -> <<>>
    /\ sinkFull' = (sinkFull \/ res.kind = "write")
    /\ IF res.kind = "ok"
       THEN /\ IF RenderFile(Content(file), cfg.verbose, cfg.hex, cfg.skip_non_text).counted
                  /\ cfg.counter
               THEN /\ file_count' = file_count + 1
                    /\ log' = Append(log, Msg("info", "Files processed so far", <<>>, file_count + 1))
               ELSE UNCHANGED <<file_count, log>>
            /\ UNCHANGED err
       ELSE /\ err' = res.kind
            /\ log' = Append(log, ErrorLine)
            /\ UNCHANGED file_count

\* one iteration of main's for loop: process_path(expanded_paths[idx])
ProcessPath ==
    /\ pc = "walk"
    /\ idx <= Len(expanded)
    /\ LET path == expanded[idx]
       IN  IF ShouldExclude(cfg.exclude, path)
           THEN /\ idx' = idx + 1
                /\ UNCHANGED <<pc, stack, output, log, file_count, visited, err, buffer, sinkFull>>
           ELSE IF Kind(path) = "dir"
           THEN \E listOk \in BOOLEAN :
                /\ visited' = visited \cup {<<idx, path>>}
                /\ IF listOk
                   THEN /\ stack' = <<[dir |-> path, rest |-> Children(path)]>>
                        /\ pc' = "dir"
                        /\ UNCHANGED <<log, err, buffer, sinkFull>>
                   ELSE /\ pc' = "failed"
                        /\ err' = "read_dir"
                        /\ UNCHANGED <<buffer, sinkFull>>
                        /\ log' = Append(log, ErrorLine)
                        /\ UNCHANGED stack
                /\ UNCHANGED <<idx, output, file_count>>
           ELSE IF Kind(path) = "file"
           THEN \E res \in FileOutcomes(path) :
                /\ ProcessFile(idx, path, res)
                /\ IF res.kind = "ok"
                   THEN idx' = idx + 1 /\ UNCHANGED pc
                   ELSE pc' = "failed" /\ UNCHANGED idx
                /\ UNCHANGED stack
           ELSE /\ log' = Append(log, Msg("error", "is not a valid file or directory", path, 0))
                /\ idx' = idx + 1
                /\ UNCHANGED <<pc, stack, output, file_count, visited, err, buffer, sinkFull>>
    /\ UNCHANGED <<cfg, outPath, sinkCreated, expanded, exVars, rnVars>>

\* one call of the iterator of the innermost process_dir that does not end its
\* for loop, and the loop body when the call yields an entry. The iterator can
\* yield an error at every call, the one after the last child included.
ProcessDirEntry ==
    /\ pc = "dir"
    /\ LET n == Len(stack)
           child == Head(stack[n].rest)
           advanced == [stack EXCEPT ![n].rest = Tail(@)]
       IN  \E entryOk \in BOOLEAN :
           \* entryOk = FALSE: `entry?` returns the iterator's error
           IF ~entryOk
           THEN /\ pc' = "failed"
                /\ err' = "entry"
                /\ UNCHANGED <<buffer, sinkFull>>
                /\ log' = Append(log, ErrorLine)
                /\ UNCHANGED <<stack, output, file_count, visited>>
           ELSE /\ stack[n].rest # <<>>
                /\ IF DirEntrySkipped(cfg.exclude, child)
                   THEN /\ stack' = advanced
                        /\ UNCHANGED <<pc, output, log, file_count, visited, err, buffer, sinkFull>>
                   ELSE IF Kind(child) = "file"
                   THEN \E res \in FileOutcomes(child) :
                        /\ ProcessFile(idx, child, res)
                        /\ IF res.kind = "ok"
                           THEN stack' = advanced /\ UNCHANGED pc
                           ELSE pc' = "failed" /\ UNCHANGED stack
                   ELSE IF Descend(cfg.recursive, child)
                   THEN \E listOk \in BOOLEAN :
                        /\ visited' = visited \cup {<<idx, child>>}
                        /\ IF listOk
                           THEN /\ stack' = Append(advanced, [dir |-> child, rest |-> Children(child)])
                                /\ UNCHANGED <<pc, log, err, buffer, sinkFull>>
                           ELSE /\ pc' = "failed"
                                /\ err' = "read_dir"
                                /\ UNCHANGED <<buffer, sinkFull>>
                                /\ log' = Append(log, ErrorLine)
                                /\ UNCHANGED stack
                        /\ UNCHANGED <<output, file_count>>
                   ELSE /\ stack' = advanced
                        /\ UNCHANGED <<pc, output, log, file_count, visited, err, buffer, sinkFull>>
    /\ UNCHANGED <<cfg, outPath, sinkCreated, expanded, idx, exVars, rnVars>>

\* the iterator of the innermost process_dir yields None: it returns Ok(())
ReturnFromDir ==
    /\ pc = "dir"
    /\ stack[Len(stack)].rest = <<>>
    /\ stack' = SubSeq(stack, 1, Len(stack) - 1)
    /\ IF Len(stack) = 1
       THEN pc' = "walk" /\ idx' = idx + 1
       ELSE UNCHANGED <<pc, idx>>
    /\ UNCHANGED <<cfg, outPath, sinkCreated, expanded, output, log, file_count, visited, err, buffer, sinkFull, exVars, rnVars>>

\* main after its for loop
Finish ==
    /\ pc = "walk"
    /\ idx > Len(expanded)
    /\ log' = IF cfg.counter
              THEN Append(log, Msg("info", "Total files processed", <<>>, file_count))
              ELSE log
    /\ pc' = "done"
    /\ UNCHANGED <<cfg, outPath, sinkCreated, expanded, idx, stack, output, file_count, visited, err, buffer, sinkFull, exVars, rnVars>>

\* main has returned: the runtime flushes what io::stdout() still holds and
\* ignores the error of that write; k of the held bytes reach the sink.
RuntimeCleanup ==
    /\ pc \in {"done", "failed"}
    /\ buffer # <<>>
    /\ \E k \in 0..Len(buffer) :
           /\ output' = Flushed(output, SubSeq(buffer, 1, k), k = Len(buffer))
           /\ sinkFull' = (sinkFull \/ k < Len(buffer))
    /\ buffer' = <<>>
    /\ UNCHANGED <<pc, cfg, outPath, sinkCreated, expanded, idx, stack, log, file_count, visited, err,
                   exVars, rnVars>>

Next == Start \/ ProcessPath \/ ProcessDirEntry \/ ReturnFromDir \/ Finish \/ RuntimeCleanup

Spec == Init /\ [][Next]_vars

\* ===================================================================
\* Properties
\* ===================================================================
Parent(p) ==
    CASE p \in {DA, DS, DZ} -> D
      [] p = DSB -> DS
      [] OTHER -> <<>>

\* v and the directories above it, up to and including the top-level entry
RECURSIVE Chain(_, _)
Chain(root, v) ==
    {v} \cup (IF v = root \/ Parent(v) = <<>> THEN {} ELSE Chain(root, Parent(v)))

\* should_exclude, tabulated over the rule sets and the paths of the runs
ExcludedPaths == [rules \in ExcludeSets |-> {p \in Nodes : ShouldExclude(rules, p)}]

Excluded(p) == p \in ExcludedPaths[cfg.exclude]

Processable(p) == ~Excluded(p) /\ Kind(p) \in {"file", "dir"}

\* C1 (as claimed): a failure on one entry (a file that cannot be opened or
\* read, a directory that cannot be listed, a directory entry that is an error)
\* never aborts the run: once the traversal has ended without a failed write to
\* the sink, main returned normally and process_file or process_dir was called
\* on every top-level entry that is a file or directory and is not excluded.
C1_EntryFailureNeverAborts ==
    (pc \in {"done", "failed"} /\ sinkCreated /\ err # "write") =>
        /\ pc = "done"
        /\ \A i \in 1..Len(expanded) :
               Processable(expanded[i]) => <<i, expanded[i]>> \in visited

\* C2 (as claimed): without --recursive a top-level directory is not
\* descended: nothing is written for any file reached through a top-level
\* entry that is a directory.
C2_TopLevelDirNotDescended ==
    ~cfg.recursive =>
        \A k \in 1..Len(output) : Kind(expanded[output[k].root]) # "dir"

\* C2 (amended): without --recursive a top-level directory that is not
\* excluded is listed and its immediate files that are not excluded are
\* processed, but no subdirectory of it is descended: everything visited or
\* written is the top-level entry itself or an immediate child of it, and no
\* error is logged for a directory.
C2_OnlyImmediateChildren ==
    ~cfg.recursive =>
        /\ \A e \in visited : e[2] = expanded[e[1]] \/ Parent(e[2]) = expanded[e[1]]
        /\ \A k \in 1..Len(output) :
               LET r == output[k]
               IN  r.file = expanded[r.root] \/ Parent(r.file) = expanded[r.root]
        /\ \A k \in 1..Len(log) : log[k].level = "error" => Kind(log[k].path) # "dir"
        /\ (pc = "done" /\ sinkCreated) =>
               \A i \in 1..Len(expanded) :
                   (Kind(expanded[i]) = "dir" /\ ~Excluded(expanded[i])) =>
                       \A c \in 1..Len(Children(expanded[i])) :
                           LET child == Children(expanded[i])[c]
                           IN  (Kind(child) = "file" /\ ~Excluded(child)) =>
                                   \E k \in 1..Len(output) :
                                       output[k].root = i /\ output[k].file = child

C2_Witness ==
    /\ pc = "done" /\ ~cfg.recursive
    /\ \E i \in 1..Len(expanded) :
           /\ expanded[i] = D
           /\ \E k \in 1..Len(output) :
                  output[k].root = i /\ output[k].file = DA /\ output[k].whole
           /\ <<i, DS>> \notin visited

\* C3 (as claimed): with --counter every processed file, in any render mode,
\* adds one to the running count: at the end file_count and the logged total
\* equal the number of files written to the sink.
C3_CountsEveryProcessedFile ==
    (pc = "done" /\ sinkCreated /\ cfg.counter) =>
        /\ file_count = Len(output)
        /\ log[Len(log)] = Msg("info", "Total files processed", <<>>, Len(output))

\* C4: when -o names an existing file or a directory, the sink is never
\* created, the path is never created or truncated, no input file is opened
\* and nothing is written; the run ends right after main's checks.
C4_RejectedOutputUntouched ==
    (cfg.output = "some" /\ outPath.kind \in {"file", "dir"}) =>
        /\ outPath.state = "original"
        /\ ~sinkCreated
        /\ visited = {}
        /\ output = <<>>
        /\ pc \in {"start", "done"}

C4_Witness ==
    /\ cfg.output = "some" /\ outPath.kind = "file"
    /\ pc = "done"
    /\ expanded # <<>>
    /\ log = <<Msg("error", "Output file already exists", <<>>, 0)>>

\* the directories above p
RECURSIVE Ancestors(_)
Ancestors(p) == IF Parent(p) = <<>> THEN {} ELSE {Parent(p)} \cup Ancestors(Parent(p))

\* C5 (as claimed): nothing that process_dir reaches lies beneath an excluded
\* directory, whatever the tree and the rules, and no excluded file is written.
C5_NothingBeneathExcludedDir ==
    /\ \A e \in visited :
           e[2] # expanded[e[1]] =>
               \A a \in Ancestors(e[2]) : ~Excluded(a)
    /\ \A k \in 1..Len(output) : ~Excluded(output[k].file)

\* C5 (amended): in the walk that starts at a top-level entry, an excluded
\* child is skipped before it is classified and an excluded directory is not
\* descended: nothing is visited or written that is excluded, or that has an
\* excluded directory between it and the top-level entry of its walk (that
\* entry included). Directories above the top-level entry are not tested.
C5_ExcludedPruned ==
    /\ \A e \in visited :
           \A a \in Chain(expanded[e[1]], e[2]) : ~Excluded(a)
    /\ \A k \in 1..Len(output) :
           \A a \in Chain(expanded[output[k].root], output[k].file) :
               ~Excluded(a)

C5_Witness ==
    /\ pc = "done" /\ cfg.recursive /\ cfg.exclude = <<DS>>
    /\ \E i \in 1..Len(expanded) :
           /\ expanded[i] = D
           /\ \E k \in 1..Len(output) :
                  output[k].root = i /\ output[k].file = DZ /\ output[k].whole
           /\ <<i, DS>> \notin visited

\* C6 (as claimed): with no positional path the run stops with the error
\* "No files or directories provided" and processes nothing.
C6_EmptyPathsMessage ==
    (pc # "start" /\ cfg.paths = <<>>) =>
        /\ pc = "done"
        /\ log = <<Msg("error", "No files or directories provided", <<>>, 0)>>
        /\ ~sinkCreated /\ visited = {} /\ output = <<>>

\* the render mode the claim's table selects
ClaimedBody(content, verbose, hex, skip_non_text) ==
    LET binary == \E i \in 1..Len(content) :
                      ~(IsAsciiGraphic(content[i]) \/ IsAsciiWhitespace(content[i]) \/ content[i] = 13)
    IN  CASE binary /\ skip_non_text -> NonTextMarker
          [] binary /\ ~skip_non_text /\ hex -> PrintHex(content)
          [] (~binary \/ (~skip_non_text /\ ~hex)) /\ verbose -> Utf8Lossy(content)
          [] (~binary \/ (~skip_non_text /\ ~hex)) /\ ~verbose -> PrintContent(FALSE, content)

FileNodes == {p \in Nodes : Kind(p) = "file"}

\* the header line and, after it, the one rendering the claim's table selects,
\* tabulated over the files and the flags of the runs
ClaimedTable ==
    [file \in FileNodes |-> [header \in Headers |->
        [verbose \in BOOLEAN |-> [hex \in BOOLEAN |-> [skip_non_text \in BOOLEAN |->
            HeaderBytes(header, file)
                \o Utf8Encode(ClaimedBody(Content(file), verbose, hex, skip_non_text))]]]]]

ClaimedBytes(file) ==
    ClaimedTable[file][cfg.header][cfg.verbose][cfg.hex][cfg.skip_non_text]

\* the same for a text buffer: always the verbose/filtered-printable path
ClaimedTextTable ==
    [file \in FileNodes |-> [header \in Headers |-> [verbose \in BOOLEAN |->
        HeaderBytes(header, file) \o Utf8Encode(PrintContent(verbose, Content(file)))]]]

ClaimedTextBytes(file) == ClaimedTextTable[file][cfg.header][cfg.verbose]

IsPrefix(s, t) == Len(s) <= Len(t) /\ s = SubSeq(t, 1, Len(s))

\* C7: for every file, what process_file writes after the header line is the
\* one rendering the flags select: the marker for a binary buffer under
\* --skip-non-text (also with --hex), else the hex dump for a binary buffer
\* under --hex, else verbose-raw or filtered-printable; a text buffer never
\* gets the marker or the hex dump. In every state, what the sink holds for a
\* file is a prefix of its header line followed by that rendering, and the
\* whole of it for every file but the last one written; for the last one the
\* sink and the bytes stdout still holds make up the whole, unless the sink
\* has refused a write.
C7_RenderModeSelection ==
    \A k \in 1..Len(output) :
        /\ IsPrefix(output[k].bytes, ClaimedBytes(output[k].file))
        /\ IsTextFile(Content(output[k].file)) =>
               IsPrefix(output[k].bytes, ClaimedTextBytes(output[k].file))
        /\ output[k].whole <=> output[k].bytes = ClaimedBytes(output[k].file)
        /\ ~output[k].whole => k = Len(output)
        /\ (~output[k].whole /\ ~sinkFull) =>
               output[k].bytes \o buffer = ClaimedBytes(output[k].file)
        /\ (output[k].whole \/ sinkFull) => (k = Len(output) => buffer = <<>>)

C7_Witness ==
    /\ pc = "done" /\ cfg.skip_non_text /\ cfg.hex
    /\ \E k \in 1..Len(output) :
           /\ output[k].file = DA /\ output[k].whole
           /\ output[k].bytes = HeaderBytes(cfg.header, DA) \o Utf8Encode(NonTextMarker)
    /\ \E k \in 1..Len(output) :
           /\ output[k].file = DZ /\ output[k].whole
           /\ output[k].bytes = HeaderBytes(cfg.header, DZ)
                                    \o Utf8Encode(PrintContent(cfg.verbose, <<65>>))

\* the normalization the specification describes: '\' becomes '/', and the
\* leading "./" markers are stripped
RECURSIVE StripLeadingDotSlash(_)
StripLeadingDotSlash(s) ==
    IF Len(s) >= 2 /\ s[1] = "." /\ s[2] = "/"
    THEN StripLeadingDotSlash(SubSeq(s, 3, Len(s)))
    ELSE s

DescribedNormalize(p) == StripLeadingDotSlash(ReplaceBackslash(p))

ClaimedExcluded(rules, path) ==
    LET n == DescribedNormalize(path)
    IN  \E r \in 1..Len(rules) :
            \/ n = DescribedNormalize(rules[r])
            \/ GlobMatches(DescribedNormalize(rules[r]), n)

\* C8 (as claimed): should_exclude gives the same answer for two spellings of
\* a path that differ only in '\' for '/' or by a leading "./", and it answers
\* true exactly when the normalized path equals a normalized pattern or
\* matches the glob of a rule.
C8_ExcludeCharacterised ==
    ex_pc = "done" =>
        /\ ex_res = ex_res_alt
        /\ ex_res = ClaimedExcluded(ex_rules, ex_path)

\* C9 (as claimed): filtered-printable rendering of a buffer the classifier
\* accepts as text writes the buffer's bytes and one trailing newline.
C9_FilteredKeepsText ==
    (rn_pc \in {"printed", "done"} /\ ~rn_verbose /\ rn_text) =>
        rn_out = rn_buf \o <<10>>

\* C10 (as claimed): normalize_path only turns '\' into '/' and strips the
\* leading "./" markers; every other character, a "./" further in included,
\* is kept.
C10_NormalizeOnlyLeading ==
    ex_pc # "input" => ex_norm = DescribedNormalize(ex_path)

====
